---- MODULE Spec2Model ----
(***************************************************************************)
(* erddapy/core/interfaces.py: the four conversion functions to_pandas,    *)
(* to_ncCF, to_xarray and to_iris, modelled statement by statement.        *)
(*                                                                         *)
(* One call runs at a time (the module is synchronous and keeps no state   *)
(* between calls); the only thing that outlives a call is the file system  *)
(* (fs), which holds the temporary files of to_iris.  Every collaborator   *)
(* invocation is appended to `trace` with the arguments it was given and   *)
(* whether it returned or raised.  The collaborators that talk to the      *)
(* network or to a third-party library answer nondeterministically.        *)
(* The optional libraries (xarray, iris) are taken to be importable.       *)
(***************************************************************************)
EXTENDS Naturals, Sequences, FiniteSets

VARIABLES
    fn,               \* the function being called ("none" before the first call)
    pc,               \* position inside the call
    url,              \* parameter url
    protocol,         \* parameter protocol of to_ncCF ("None" when absent)
    response,         \* parameter response of to_xarray
    requests_kwargs,  \* parameter/local requests_kwargs (None or a dict)
    kw,               \* local **kw dict (kw.pop mutates it)
    caller,           \* what the caller passed: [requests_kwargs, kw]
    auth,             \* local auth
    data,             \* local data (the fetched byte stream)
    nc,               \* local nc (netCDF4 dataset handle)
    tmp,              \* local tmp (path yielded by _tempnc)
    cubes,            \* local cubes (iris CubeList)
    next_cube,        \* position of the comprehension of line 85 in cubes
    trace,            \* collaborator invocations of the current call, in order
    status,           \* "idle", "running", "returned", "raised"
    retval,           \* the value returned
    exc,              \* the exception raised: {} or {e}
    fs                \* temporary files that exist on disk

vars == <<fn, pc, url, protocol, response, requests_kwargs, kw, caller, auth,
          data, nc, tmp, cubes, next_cube, trace, status, retval, exc, fs>>

---------------------------------------------------------------------------
\* Bounds of the model.

\* longest byte stream the fetch returns
MaxLen == 3
\* most cubes iris.load_raw returns
MaxCubes == 2

---------------------------------------------------------------------------
\* Input domains.

URLS == {"http://a", "http://b"}

\* protocol tags; "None" is the default protocol=None
Protocols == {"None", "tabledap", "griddap"}

\* response modes; "opendap" is the default
Responses == {"opendap", "nc", "ncCF"}

\* A dict is a set of <<key, value>> pairs with pairwise different keys.
IsDict(d) == \A p \in d : \A q \in d : p[1] = q[1] => p = q

KwItems == {<<"auth", "cred">>, <<"sep", ",">>, <<"sep", ";">>}
KwDicts == {d \in SUBSET KwItems : IsDict(d)}

RequestsItems == {<<"timeout", "5">>}
None == [tag |-> "None", items |-> {}]
Dict(d) == [tag |-> "dict", items |-> d]
RequestsKwargs == {None} \cup {Dict(d) : d \in SUBSET RequestsItems}

HasKey(d, k) == \E p \in d : p[1] = k
\* dict.pop(k, default): the value and the dict without the key
PopValue(d, k, default) == IF HasKey(d, k) THEN (CHOOSE p \in d : p[1] = k)[2] ELSE default
\* Variant of PopRest: the key is read and left in the dict (get, not pop).
PopRestKeep(d, k) == d
PopRest(d, k) == {p \in d : p[1] # k}

\* byte streams: sequences of at most MaxLen characters
Chars == {"x", ",", "\n"}
Bytes == UNION {[1..n -> Chars] : n \in 0..MaxLen}

---------------------------------------------------------------------------
\* Values.

NoValue == <<>>
NoHandle == [kind |-> "none", url |-> ""]

Exception(type, msg, cause) == [type |-> type, msg |-> msg, cause |-> cause]

Returned(v) == [ok |-> TRUE, val |-> v, err |-> {}]
Raised(e) == [ok |-> FALSE, val |-> NoValue, err |-> {e}]

\* one collaborator invocation: what it was given and how it answered
Event(name, arg, a, opts, r) ==
    [name |-> name, arg |-> arg, auth |-> a, opts |-> opts,
     res |-> IF r.ok THEN "ok" ELSE "raise",
     out |-> [ok |-> r.ok, val |-> r.val, err |-> r.err]]

---------------------------------------------------------------------------
\* Collaborators.

\* erddapy.core.url.urlopen(url, **requests_kwargs): a byte stream, or a
\* transport failure.
urlopen(u, opts) ==
    {Returned(d) : d \in Bytes}
    \cup {Raised(Exception("HTTPError", <<"transport failure ", u>>, {}))}

\* erddapy.core.netcdf._nc_dataset(url, auth, **requests_kwargs): a netCDF4
\* dataset handle built from the fetched bytes, or a failure.
_nc_dataset(u, a, opts) ==
    {Returned([kind |-> "Dataset", url |-> u]),
     Raised(Exception("HTTPError", <<"transport failure ", u>>, {})),
     Raised(Exception("OSError", <<"not a netCDF file ", u>>, {}))}

\* Splits a sequence at every occurrence of c.
RECURSIVE SplitOn(_, _)
SplitOn(s, c) ==
    IF s = <<>> THEN << <<>> >>
    ELSE LET rest == SplitOn(Tail(s), c)
         IN  IF Head(s) = c THEN << <<>> >> \o rest
             ELSE << <<Head(s)>> \o rest[1] >> \o Tail(rest)

NonBlank(l) == l # <<>>

\* pandas.read_csv(data, **kw), reduced to what decides success or failure:
\* an unknown keyword is a TypeError, a stream without lines an
\* EmptyDataError, a row whose field count differs from the header's a
\* ParserError; otherwise the frame is the header and the rows, split at the
\* separator (sep, "," by default).
read_csv(d, opts) ==
    LET sep   == PopValue(opts, "sep", ",")
        lines == SelectSeq(SplitOn(d, "\n"), NonBlank)
        rows  == [i \in 1..Len(lines) |-> SplitOn(lines[i], sep)]
    IN  IF \E p \in opts : p[1] # "sep"
        THEN Raised(Exception("TypeError", <<"unexpected keyword argument">>, {}))
        ELSE IF lines = <<>>
        THEN Raised(Exception("EmptyDataError", <<"No columns to parse from file">>, {}))
        ELSE IF \E i \in 1..Len(rows) : Len(rows[i]) # Len(rows[1])
        THEN Raised(Exception("ParserError", <<"Error tokenizing data">>, {}))
        ELSE Returned([columns |-> rows[1], rows |-> Tail(rows)])

\* xarray.backends.NetCDF4DataStore(nc): the store wrapping a dataset handle
NetCDF4DataStore(h) == [kind |-> "NetCDF4DataStore", url |-> h.url]

\* xarray.open_dataset(target, **kw): target is a URL (opened remotely over
\* OPeNDAP) or a data store; a dataset, or a failure.
open_dataset(target, opts) ==
    {Returned([kind |-> "xr.Dataset", source |-> target, opts |-> opts]),
     Raised(Exception("OSError", <<"cannot open dataset">>, {}))}

\* temporary file names
Paths == {"/tmp/erddapy_1.nc", "/tmp/erddapy_2.nc"}

\* erddapy.core.netcdf._tempnc(data), entering the block: a new file holding
\* the bytes, whose path is yielded; a failure leaves no file.
tempnc_enter(d, files) ==
    {[ok |-> TRUE, val |-> path, err |-> {}, files |-> files \cup {path}] :
        path \in Paths \ files}
    \cup {[ok |-> FALSE, val |-> "", files |-> files,
           err |-> {Exception("OSError", <<"cannot write temporary file">>, {})}]}

\* erddapy.core.netcdf._tempnc(data), leaving the block: the file is deleted.
tempnc_exit(path, files) == files \ {path}

\* the cubes of a file, their data not yet read (lazy)
LazyCubes(n) == [j \in 1..n |-> [id |-> j, realised |-> FALSE]]

\* iris.load_raw(tmp, **kw): the cubes of the file at tmp, or a failure; a
\* file that does not exist cannot be loaded.
load_raw(path, opts, files) ==
    (IF path \in files THEN {Returned(LazyCubes(n)) : n \in 0..MaxCubes} ELSE {})
    \cup {Raised(Exception("OSError", <<"cannot load ", path>>, {}))}

\* cube.data: reads the cube's data from its file, which must still exist.
cube_data(cube, path, files) ==
    (IF path \in files THEN {Returned([cube EXCEPT !.realised = TRUE])} ELSE {})
    \cup {Raised(Exception("OSError", <<"cannot read data of cube">>, {}))}

---------------------------------------------------------------------------
\* Shared steps.

\* `if requests_kwargs is None: requests_kwargs = {}`
OrEmpty(rk) == IF rk.tag = "None" THEN Dict({}) ELSE rk

Running(f, at) == fn = f /\ pc = at /\ status = "running"

\* A call starts: parameters bound, locals unbound, nothing invoked yet.
Enter(f, u, p, r, rk, k, at) ==
    /\ fn' = f
    /\ pc' = at
    /\ url' = u
    /\ protocol' = p
    /\ response' = r
    /\ requests_kwargs' = rk
    /\ kw' = k
    /\ caller' = [requests_kwargs |-> rk, kw |-> k]
    /\ auth' = "None"
    /\ data' = <<>>
    /\ nc' = NoHandle
    /\ tmp' = ""
    /\ cubes' = <<>>
    /\ next_cube' = 1
    /\ trace' = <<>>
    /\ status' = "running"
    /\ retval' = NoValue
    /\ exc' = {}
    /\ UNCHANGED fs

\* `return v`
Return(v) == pc' = "done" /\ status' = "returned" /\ retval' = v /\ exc' = {}

\* an exception leaves the function
Raise(e) == pc' = "done" /\ status' = "raised" /\ retval' = NoValue /\ exc' = {e}

\* The call is over: its parameters and locals go out of scope; the files it
\* left on disk stay.
Collect ==
    /\ pc = "done"
    /\ fn' = "none"
    /\ pc' = "idle"
    /\ url' = ""
    /\ protocol' = "None"
    /\ response' = "opendap"
    /\ requests_kwargs' = None
    /\ kw' = {}
    /\ caller' = [requests_kwargs |-> None, kw |-> {}]
    /\ auth' = "None"
    /\ data' = <<>>
    /\ nc' = NoHandle
    /\ tmp' = ""
    /\ cubes' = <<>>
    /\ next_cube' = 1
    /\ trace' = <<>>
    /\ status' = "idle"
    /\ retval' = NoValue
    /\ exc' = {}
    /\ UNCHANGED fs

Goto(at) == pc' = at /\ UNCHANGED <<status, retval, exc>>

Params == <<fn, url, protocol, response, caller>>

---------------------------------------------------------------------------
\* to_pandas

Call_to_pandas ==
    /\ pc = "idle"
    /\ \E u \in URLS, rk \in RequestsKwargs, k \in KwDicts :
        Enter("to_pandas", u, "None", "opendap", rk, k, "pandas_28")

\* Variant of CouldNotRead: the new error does not keep its cause (no `from e`).
CouldNotReadNoCause(u, e) ==
    Exception("ValueError", <<"Could not read url ", u, " with Pandas.read_csv.">>, {})

\* line 34: the error that replaces a failure of the parsing step
CouldNotRead(u, e) ==
    Exception("ValueError", <<"Could not read url ", u, " with Pandas.read_csv.">>, {e})

\* Variant of FetchError: the fetch stands inside the try, so its failure is
\* wrapped like a parse failure.
FetchErrorWrapped(e, u) == CouldNotRead(u, e)

\* line 30 stands before the try of line 31: what urlopen raises leaves the
\* function as it is
FetchError(e, u) == e

\* lines 28-30: data = urlopen(url, **requests_kwargs)
ToPandasFetch ==
    /\ Running("to_pandas", "pandas_28")
    /\ requests_kwargs' = OrEmpty(requests_kwargs)
    /\ \E r \in urlopen(url, requests_kwargs'.items) :
        /\ trace' = Append(trace, Event("urlopen", url, "unset", requests_kwargs'.items, r))
        /\ IF r.ok
           THEN data' = r.val /\ Goto("pandas_31")
           ELSE data' = data /\ \E e \in r.err : Raise(FetchError(e, url))
    /\ UNCHANGED <<Params, kw, auth, nc, tmp, cubes, next_cube, fs>>

\* Variant of ReadCsvArgs: the library options are not passed on.
ReadCsvArgsNoOptions(d, k) == [data |-> d, opts |-> {}]

\* line 32: what pd.read_csv is called with
ReadCsvArgs(d, k) == [data |-> d, opts |-> k]

\* Variant of ParseOrWrap: a parse failure is swallowed and an empty frame
\* returned.
ParseOrWrapSwallow(r, u) ==
    IF r.ok THEN r ELSE Returned([columns |-> <<>>, rows |-> <<>>])

\* lines 31-34: the parser's frame is returned as it is; `except Exception`
\* replaces whatever the parser raised
ParseOrWrap(r, u) ==
    IF r.ok THEN r
    ELSE Raised(CouldNotRead(u, CHOOSE e \in r.err : TRUE))

ToPandasRead ==
    /\ Running("to_pandas", "pandas_31")
    /\ LET a == ReadCsvArgs(data, kw)
           p == read_csv(a.data, a.opts)
           r == ParseOrWrap(p, url)
       IN  /\ trace' = Append(trace, Event("pd.read_csv", a.data, "unset", a.opts, p))
           /\ IF r.ok THEN Return(r.val) ELSE \E e \in r.err : Raise(e)
    /\ UNCHANGED <<Params, requests_kwargs, kw, auth, data, nc, tmp, cubes, next_cube, fs>>

---------------------------------------------------------------------------
\* to_ncCF

Call_to_ncCF ==
    /\ pc = "idle"
    /\ \E u \in URLS, p \in Protocols, k \in KwDicts :
        Enter("to_ncCF", u, p, "opendap", None, k, "ncCF_39")

\* Variant of Forbidden: the other protocol tag is the one rejected.
ForbiddenOtherTag(p) == p = "tabledap"

\* line 39: the protocol .ncCF cannot be used with
Forbidden(p) == p = "griddap"

\* lines 39-42
ToNcCFReject ==
    /\ Running("to_ncCF", "ncCF_39")
    /\ Forbidden(protocol)
    /\ Raise(Exception("ValueError",
                       <<"Cannot use .ncCF with griddap protocol. The URL you tried to access is: '",
                         url, "'.">>, {}))
    /\ UNCHANGED <<Params, requests_kwargs, kw, auth, data, nc, tmp, cubes, next_cube, trace, fs>>

\* line 43: auth = kw.pop("auth", None)
ToNcCFPopAuth ==
    /\ Running("to_ncCF", "ncCF_39")
    /\ ~Forbidden(protocol)
    /\ auth' = PopValue(kw, "auth", "None")
    /\ kw' = PopRest(kw, "auth")
    /\ Goto("ncCF_44")
    /\ UNCHANGED <<Params, requests_kwargs, data, nc, tmp, cubes, next_cube, trace, fs>>

\* line 44: return _nc_dataset(url, auth=auth, **kw)
ToNcCFDataset ==
    /\ Running("to_ncCF", "ncCF_44")
    /\ \E r \in _nc_dataset(url, auth, kw) :
        /\ trace' = Append(trace, Event("_nc_dataset", url, auth, kw, r))
        /\ IF r.ok THEN Return(r.val) ELSE \E e \in r.err : Raise(e)
    /\ UNCHANGED <<Params, requests_kwargs, kw, auth, data, nc, tmp, cubes, next_cube, fs>>

---------------------------------------------------------------------------
\* to_xarray

Call_to_xarray ==
    /\ pc = "idle"
    /\ \E u \in URLS, r \in Responses, rk \in RequestsKwargs, k \in KwDicts :
        Enter("to_xarray", u, "None", r, rk, k, "xarray_60")

\* line 60: auth = kw.pop("auth", None)
ToXarrayPopAuth ==
    /\ Running("to_xarray", "xarray_60")
    /\ auth' = PopValue(kw, "auth", "None")
    /\ kw' = PopRest(kw, "auth")
    /\ Goto("xarray_61")
    /\ UNCHANGED <<Params, requests_kwargs, data, nc, tmp, cubes, next_cube, trace, fs>>

\* Variant of IsOpendap: the branches of line 61 are swapped.
IsOpendapInverted(r) == r # "opendap"

\* line 61: the mode that opens the URL itself
IsOpendap(r) == r = "opendap"

\* line 62: the keyword arguments of xr.open_dataset(url, **kw)
OpendapOptions(k, rk) == k

\* lines 61-62: return xr.open_dataset(url, **kw)
ToXarrayOpendap ==
    /\ Running("to_xarray", "xarray_61")
    /\ IsOpendap(response)
    /\ LET opts == OpendapOptions(kw, requests_kwargs)
       IN  \E r \in open_dataset(url, opts) :
            /\ trace' = Append(trace, Event("xr.open_dataset", url, "unset", opts, r))
            /\ IF r.ok THEN Return(r.val) ELSE \E e \in r.err : Raise(e)
    /\ UNCHANGED <<Params, requests_kwargs, kw, auth, data, nc, tmp, cubes, next_cube, fs>>

\* Variant of NcDatasetOptions: requests_kwargs is not passed on.
NcDatasetOptionsDropped(rk) == {}

\* line 66: the keyword arguments of _nc_dataset(url, auth=auth, **requests_kwargs)
NcDatasetOptions(rk) == rk.items

\* lines 63-66: nc = _nc_dataset(url, auth=auth, **requests_kwargs)
ToXarrayNcDataset ==
    /\ Running("to_xarray", "xarray_61")
    /\ ~IsOpendap(response)
    /\ requests_kwargs' = OrEmpty(requests_kwargs)
    /\ LET opts == NcDatasetOptions(requests_kwargs')
       IN  \E r \in _nc_dataset(url, auth, opts) :
            /\ trace' = Append(trace, Event("_nc_dataset", url, auth, opts, r))
            /\ IF r.ok
               THEN nc' = r.val /\ Goto("xarray_67")
               ELSE nc' = nc /\ \E e \in r.err : Raise(e)
    /\ UNCHANGED <<Params, kw, auth, data, tmp, cubes, next_cube, fs>>

\* line 67: return xr.open_dataset(xr.backends.NetCDF4DataStore(nc), **kw)
ToXarrayOpenStore ==
    /\ Running("to_xarray", "xarray_67")
    /\ \E r \in open_dataset(NetCDF4DataStore(nc), kw) :
        /\ trace' = Append(trace, Event("xr.open_dataset", NetCDF4DataStore(nc), "unset", kw, r))
        /\ IF r.ok THEN Return(r.val) ELSE \E e \in r.err : Raise(e)
    /\ UNCHANGED <<Params, requests_kwargs, kw, auth, data, nc, tmp, cubes, next_cube, fs>>

---------------------------------------------------------------------------
\* to_iris

Call_to_iris ==
    /\ pc = "idle"
    /\ \E u \in URLS, rk \in RequestsKwargs, k \in KwDicts :
        Enter("to_iris", u, "None", "opendap", rk, k, "iris_80")

\* lines 80-82: data = urlopen(url, **requests_kwargs)
ToIrisFetch ==
    /\ Running("to_iris", "iris_80")
    /\ requests_kwargs' = OrEmpty(requests_kwargs)
    /\ \E r \in urlopen(url, requests_kwargs'.items) :
        /\ trace' = Append(trace, Event("urlopen", url, "unset", requests_kwargs'.items, r))
        /\ IF r.ok
           THEN data' = r.val /\ Goto("iris_83")
           ELSE data' = data /\ \E e \in r.err : Raise(e)
    /\ UNCHANGED <<Params, kw, auth, nc, tmp, cubes, next_cube, fs>>

\* line 83: with _tempnc(data) as tmp
ToIrisTempnc ==
    /\ Running("to_iris", "iris_83")
    /\ \E r \in tempnc_enter(data, fs) :
        /\ trace' = Append(trace, Event("_tempnc.enter", data, "unset", {}, r))
        /\ fs' = r.files
        /\ IF r.ok
           THEN tmp' = r.val /\ Goto("iris_84")
           ELSE tmp' = tmp /\ \E e \in r.err : Raise(e)
    /\ UNCHANGED <<Params, requests_kwargs, kw, auth, data, nc, cubes, next_cube>>

\* Variant of LeaveWith: the file is removed after the block's last statement
\* only, so an exception skips the removal (no with, no finally).
LeaveWithOnReturnOnly(path, files, raised) ==
    IF raised THEN files ELSE tempnc_exit(path, files)

\* line 83: the with statement leaves its block, by `return` or by an
\* exception (raised = TRUE): the context manager's exit runs either way.
LeaveWith(path, files, raised) == tempnc_exit(path, files)

\* line 84: cubes = iris.load_raw(tmp, **kw)
ToIrisLoad ==
    /\ Running("to_iris", "iris_84")
    /\ \E r \in load_raw(tmp, kw, fs) :
        LET called == Append(trace, Event("iris.load_raw", tmp, "unset", kw, r))
        IN  IF r.ok
            THEN /\ cubes' = r.val
                 /\ trace' = called
                 /\ Goto("iris_85")
                 /\ UNCHANGED fs
            ELSE /\ cubes' = cubes
                 /\ fs' = LeaveWith(tmp, fs, TRUE)
                 /\ trace' = Append(called, Event("_tempnc.exit", tmp, "unset", {}, Returned(NoValue)))
                 /\ \E e \in r.err : Raise(e)
    /\ UNCHANGED <<Params, requests_kwargs, kw, auth, data, nc, tmp, next_cube>>

\* Variant of Materialize: line 85 missing, the cube's data is not accessed.
MaterializeSkipped(cube, path, files) == {Returned(cube)}

\* line 85: the access cube.data
Materialize(cube, path, files) == cube_data(cube, path, files)

\* line 85: _ = [cube.data for cube in cubes], one cube at a time
ToIrisData ==
    /\ Running("to_iris", "iris_85")
    /\ next_cube <= Len(cubes)
    /\ \E r \in Materialize(cubes[next_cube], tmp, fs) :
        LET called == Append(trace, Event("cube.data", next_cube, "unset", {}, r))
        IN  IF r.ok
            THEN /\ cubes' = [cubes EXCEPT ![next_cube] = r.val]
                 /\ next_cube' = next_cube + 1
                 /\ trace' = called
                 /\ Goto("iris_85")
                 /\ UNCHANGED fs
            ELSE /\ UNCHANGED <<cubes, next_cube>>
                 /\ fs' = LeaveWith(tmp, fs, TRUE)
                 /\ trace' = Append(called, Event("_tempnc.exit", tmp, "unset", {}, Returned(NoValue)))
                 /\ \E e \in r.err : Raise(e)
    /\ UNCHANGED <<Params, requests_kwargs, kw, auth, data, nc, tmp>>

\* line 86: return cubes, out of the with block
ToIrisReturn ==
    /\ Running("to_iris", "iris_85")
    /\ next_cube > Len(cubes)
    /\ fs' = LeaveWith(tmp, fs, FALSE)
    /\ trace' = Append(trace, Event("_tempnc.exit", tmp, "unset", {}, Returned(NoValue)))
    /\ Return(cubes)
    /\ UNCHANGED <<Params, requests_kwargs, kw, auth, data, nc, tmp, cubes, next_cube>>

---------------------------------------------------------------------------

Init ==
    /\ fn = "none"
    /\ pc = "idle"
    /\ url = ""
    /\ protocol = "None"
    /\ response = "opendap"
    /\ requests_kwargs = None
    /\ kw = {}
    /\ caller = [requests_kwargs |-> None, kw |-> {}]
    /\ auth = "None"
    /\ data = <<>>
    /\ nc = NoHandle
    /\ tmp = ""
    /\ cubes = <<>>
    /\ next_cube = 1
    /\ trace = <<>>
    /\ status = "idle"
    /\ retval = NoValue
    /\ exc = {}
    /\ fs = {}

Next ==
    \/ Call_to_pandas
    \/ ToPandasFetch
    \/ ToPandasRead
    \/ Call_to_ncCF
    \/ ToNcCFReject
    \/ ToNcCFPopAuth
    \/ ToNcCFDataset
    \/ Call_to_xarray
    \/ ToXarrayPopAuth
    \/ ToXarrayOpendap
    \/ ToXarrayNcDataset
    \/ ToXarrayOpenStore
    \/ Call_to_iris
    \/ ToIrisFetch
    \/ ToIrisTempnc
    \/ ToIrisLoad
    \/ ToIrisData
    \/ ToIrisReturn
    \/ Collect

Spec == Init /\ [][Next]_vars

---------------------------------------------------------------------------
\* Properties.

Ended == pc = "done"

\* the positions of trace at which `name` was invoked
Calls(name) == {i \in 1..Len(trace) : trace[i].name = name}

Names == [i \in 1..Len(trace) |-> trace[i].name]

\* the collaborators that fetch bytes or build a dataset from fetched bytes
Fetchers == {"urlopen", "_nc_dataset"}

\* the external collaborators of the four functions
Collaborators == {"urlopen", "_nc_dataset", "pd.read_csv", "xr.open_dataset", "iris.load_raw"}

Mentions(e, u) == \E i \in 1..Len(e.msg) : e.msg[i] = u

\* C1: a call of to_ncCF with protocol "griddap" invokes no collaborator at
\* any point, can only proceed by raising, never returns a value, and ends
\* in a ValueError (naming the URL), whatever the URL and library options.
C1_GriddapRejectedBeforeAnyCall ==
    (fn = "to_ncCF" /\ protocol = "griddap") =>
        /\ trace = <<>>
        /\ pc \in {"ncCF_39", "done"}
        /\ status = "running" => (ENABLED ToNcCFReject /\ ~ENABLED ToNcCFPopAuth)
        /\ Ended =>
            /\ status = "raised"
            /\ \E e \in exc : exc = {e} /\ e.type = "ValueError" /\ Mentions(e, url)

C1_Witness ==
    /\ fn = "to_ncCF" /\ protocol = "griddap" /\ Ended
    /\ HasKey(caller.kw, "auth")
    /\ status = "raised"

\* C2: in to_pandas, when the fetch succeeded and pd.read_csv raised, the
\* call ends in exactly one error, a ValueError whose message contains the
\* URL and whose cause is the error pd.read_csv raised; nothing is returned.
C2_ParseFailureWrapped ==
    (fn = "to_pandas" /\ Len(trace) = 2 /\ trace[2].name = "pd.read_csv"
        /\ trace[2].res = "raise") =>
        /\ trace[1].name = "urlopen" /\ trace[1].res = "ok"
        /\ status = "raised"
        /\ retval = NoValue
        /\ Cardinality(exc) = 1
        /\ \A e \in exc :
            /\ e.type = "ValueError"
            /\ Mentions(e, url)
            /\ e.cause = trace[2].out.err
            /\ Cardinality(e.cause) = 1

C2_Witness ==
    /\ fn = "to_pandas" /\ Ended /\ Len(trace) = 2
    /\ trace[2].res = "raise"
    /\ \E e \in exc : \E c \in e.cause : c.type = "ParserError"

\* C3: when a call of to_iris has ended, by returning or by raising, the
\* temporary file of that call is not on disk (and no other one is).
C3_TempFileGone ==
    (fn = "to_iris" /\ Ended) => (tmp \notin fs /\ fs = {})

C3_Witness ==
    /\ fn = "to_iris" /\ Ended /\ status = "raised"
    /\ tmp \in Paths
    /\ \E i \in Calls("cube.data") : trace[i].res = "raise"

\* C4: a call of to_xarray in the default response mode never invokes the
\* byte-fetch collaborators, and when it has ended it has made exactly one
\* collaborator call, xr.open_dataset on the URL itself.
C4_OpendapOpensUrlDirectly ==
    (fn = "to_xarray" /\ response = "opendap") =>
        /\ \A i \in 1..Len(trace) : trace[i].name \notin Fetchers
        /\ Len(trace) <= 1
        /\ Ended =>
            /\ Names = <<"xr.open_dataset">>
            /\ trace[1].arg = url
            /\ status = "returned" => retval.source = url

C4_Witness ==
    /\ fn = "to_xarray" /\ response = "opendap" /\ Ended
    /\ status = "returned"
    /\ caller.requests_kwargs.items # {}

\* C5: in to_pandas, when the fetched byte stream is well formed for the
\* caller's library options, the call returns exactly what pd.read_csv gives
\* for those bytes and those options, which it was called with unchanged.
C5_FrameIsReferenceParse ==
    (fn = "to_pandas" /\ Ended /\ Len(trace) >= 1 /\ trace[1].res = "ok"
        /\ read_csv(trace[1].out.val, caller.kw).ok) =>
        /\ status = "returned"
        /\ retval = read_csv(trace[1].out.val, caller.kw).val
        /\ Names = <<"urlopen", "pd.read_csv">>
        /\ trace[2].arg = trace[1].out.val
        /\ trace[2].opts = caller.kw

C5_Witness ==
    /\ fn = "to_pandas" /\ Ended /\ status = "returned"
    /\ HasKey(caller.kw, "sep")
    /\ Len(retval.columns) = 2
    /\ Len(retval.rows) = 1

\* C6 as stated: in to_xarray outside the default response mode, no
\* collaborator call is given anything of requests_kwargs.
C6_IgnoredOutsideDefaultMode ==
    (fn = "to_xarray" /\ response # "opendap") =>
        \A i \in 1..Len(trace) : trace[i].opts \cap caller.requests_kwargs.items = {}

\* C6 amended: in to_xarray it is in the default response mode ("opendap")
\* that requests_kwargs is ignored, no collaborator call being given
\* anything of it; outside the default mode requests_kwargs is what
\* _nc_dataset is called with (nothing when it is None), and xr.open_dataset
\* is given nothing of it.
C6_IgnoredInDefaultModeOnly ==
    fn = "to_xarray" =>
        \A i \in 1..Len(trace) :
            IF response # "opendap" /\ trace[i].name = "_nc_dataset"
            THEN trace[i].opts = caller.requests_kwargs.items
            ELSE trace[i].opts \cap caller.requests_kwargs.items = {}

C6_Witness ==
    /\ fn = "to_xarray" /\ response # "opendap" /\ Ended
    /\ caller.requests_kwargs.items # {}
    /\ Names = <<"_nc_dataset", "xr.open_dataset">>

\* C7: in to_pandas, when urlopen raises, the call ends in that very error,
\* not in the URL-naming ValueError, and pd.read_csv is not invoked.
C7_TransportFailurePropagates ==
    (fn = "to_pandas" /\ Len(trace) >= 1 /\ trace[1].res = "raise") =>
        /\ Names = <<"urlopen">>
        /\ status = "raised"
        /\ exc = trace[1].out.err
        /\ Cardinality(exc) = 1
        /\ \A e \in exc : e.type # "ValueError" /\ e.cause = {}

C7_Witness ==
    /\ fn = "to_pandas" /\ Ended /\ status = "raised"
    /\ \E e \in exc : e.type = "HTTPError"
    /\ caller.kw # {}

\* C8: a call of to_ncCF with any protocol tag other than "griddap" (None
\* included) is not rejected; when it has ended it has invoked _nc_dataset
\* once and nothing else, with the URL, with auth the caller's "auth" option
\* (None when absent) and with the other library options, "auth" not among
\* them; what _nc_dataset returned or raised is what the call returns or
\* raises.
C8_OtherProtocolsOpenDataset ==
    (fn = "to_ncCF" /\ protocol # "griddap") =>
        /\ Len(trace) <= 1
        /\ Ended =>
            /\ Names = <<"_nc_dataset">>
            /\ trace[1].arg = url
            /\ trace[1].auth = (IF HasKey(caller.kw, "auth")
                                THEN (CHOOSE p \in caller.kw : p[1] = "auth")[2]
                                ELSE "None")
            /\ trace[1].opts = {p \in caller.kw : p[1] # "auth"}
            /\ ~HasKey(trace[1].opts, "auth")
            /\ IF trace[1].res = "ok"
               THEN status = "returned" /\ retval = trace[1].out.val
               ELSE status = "raised" /\ exc = trace[1].out.err

C8_Witness ==
    /\ fn = "to_ncCF" /\ protocol = "None" /\ Ended
    /\ status = "returned"
    /\ HasKey(caller.kw, "auth") /\ HasKey(caller.kw, "sep")

\* C9: a call of to_iris that returned has fetched the bytes, created the
\* temporary file, loaded the cubes from it, accessed the data of every
\* loaded cube in turn and deleted the file, in this order and with nothing
\* else; the cubes returned are the loaded ones, each with its data read,
\* and the file existed whenever a cube's data was accessed.
C9_IrisStepsInOrder ==
    /\ (fn = "to_iris" /\ status = "returned") =>
        LET n == Len(retval)
        IN  /\ Names = <<"urlopen", "_tempnc.enter", "iris.load_raw">>
                        \o [j \in 1..n |-> "cube.data"] \o <<"_tempnc.exit">>
            /\ \A i \in 1..Len(trace) : trace[i].res = "ok"
            /\ trace[2].arg = trace[1].out.val
            /\ trace[3].arg = trace[2].out.val
            /\ Len(trace[3].out.val) = n
            /\ \A j \in 1..n :
                /\ trace[3 + j].arg = j
                /\ retval[j].id = trace[3].out.val[j].id
                /\ retval[j].realised
            /\ trace[n + 4].arg = trace[2].out.val
    /\ (fn = "to_iris" /\ tmp \in Paths /\ tmp \notin fs) =>
        /\ trace[Len(trace)].name = "_tempnc.exit"
        /\ Ended

C9_Witness ==
    /\ fn = "to_iris" /\ status = "returned"
    /\ Len(retval) >= 2

\* C10: in a call of any of the four functions each external collaborator is
\* invoked at most once; once one of them has raised, no collaborator is
\* invoked after it and the call has ended in an error, with no value.
C10_NoRetryNoRecovery ==
    /\ \A c \in Collaborators : Cardinality(Calls(c)) <= 1
    /\ \A i \in 1..Len(trace) :
        (trace[i].name \in Collaborators /\ trace[i].res = "raise") =>
            /\ \A j \in (i + 1)..Len(trace) : trace[j].name \notin Collaborators
            /\ status = "raised"
            /\ retval = NoValue
            /\ exc # {}

C10_Witness ==
    /\ fn = "to_xarray" /\ Ended
    /\ Names = <<"_nc_dataset", "xr.open_dataset">>
    /\ trace[2].res = "raise"

====
